---- MODULE Spec2Model ----
(***************************************************************************)
(* Signal pipeline of the Algotrader repository: indicator library,        *)
(* multi-timeframe analyzer (signal_generator.py), confidence scorer       *)
(* (ml.py) and the ranking step of a scan (engine.py).                     *)
(*                                                                         *)
(* Numbers.  Python floats are modelled in fixed point:                    *)
(*   prices, indicator values     integers, unit 1e-9 ("nano")             *)
(*   values after round(x, 6)     integers, unit 1e-6 ("micro")            *)
(*   rsi                          integers, unit 1e-3                      *)
(*   score, confidence, jitter    integers, unit 1e-2 (of a percent point) *)
(*   model probability            integers, unit 1e-5                      *)
(* A Python value that may be None is None == <<>> or Some(x) == <<x>>.    *)
(* A Python dict is a function from its keys (strings) to values.          *)
(***************************************************************************)
EXTENDS Integers, Sequences, FiniteSets, TLC

\* ------------------------------------------------------------- bounds
\* longest candle list the market-data fetch returns in the model
MaxCandles == 31

\* ---------------------------------------------------------- fixed point
\* nano-units per micro-unit: round(x, 6) keeps multiples of 1e-6
MICRO == 1000
\* the epsilon 1e-10 of rsi's division, in units of 1e-10
RSI_EPS == 1
\* rsi and rs are kept in thousandths
RSI_SCALE == 1000

None == <<>>
Some(x) == <<x>>
Val(o) == o[1]

Abs(x) == IF x < 0 THEN -x ELSE x
Max2(a, b) == IF a >= b THEN a ELSE b
Min2(a, b) == IF a <= b THEN a ELSE b

\* a / b rounded to the nearest unit (b > 0), as a float quotient is
Div(a, b) == (2 * a + b) \div (2 * b)

RECURSIVE SumFromTo(_, _, _)
\* sum(s[a-1:b]) of Python, for 1-based a..b
SumFromTo(s, a, b) == IF a > b THEN 0 ELSE s[a] + SumFromTo(s, a + 1, b)

RECURSIVE ISqrtBin(_, _, _)
\* largest r in lo..hi with r*r <= v
ISqrtBin(v, lo, hi) ==
    IF lo >= hi THEN lo
    ELSE LET mid == (lo + hi + 1) \div 2
         IN  IF mid * mid <= v THEN ISqrtBin(v, mid, hi) ELSE ISqrtBin(v, lo, mid - 1)

\* var ** 0.5, to the nearest unit
Sqrt(v) ==
    LET r == ISqrtBin(v, 0, Min2(v, 46339))
    IN  IF v - r * r > r THEN r + 1 ELSE r

\* round-half-even of n/d, n >= 0, d > 0: Python's round() on the exact quotient
RoundHalfEven(n, d) ==
    LET q == n \div d
        r == n % d
    IN  IF 2 * r < d THEN q
        ELSE IF 2 * r > d THEN q + 1
        ELSE IF q % 2 = 0 THEN q ELSE q + 1

\* round(num/den, 6) for a value num/den in nano-units; the result is in micro-units
Round6(num, den) == RoundHalfEven(num, den * MICRO)

\* ------------------------------------------------- strategy configuration
RISK_PCT == 15
ACCOUNT_BALANCE == 100
LEVERAGE == 20
ENTRY_BUFFER_PCT == 2
MIN_VOLUME == 1000
MIN_ATR_PCT == 1
RSI_ZONE == <<20, 80>>
INTERVALS == <<"15m", "1h", "4h">>
\* analyze needs at least this many candles of every timeframe
MIN_CANDLES == 30

\* ------------------------------------------------------------ indicators
RECURSIVE EmaFold(_, _, _, _)
EmaFold(prices, i, val, period) ==
    IF i > Len(prices) THEN val
    ELSE EmaFold(prices, i + 1, Div((prices[i] - val) * 2, period + 1) + val, period)

\* the length test lost: sum(prices[:period]) / period of a short input is a number
EmaOfAvailable(prices, period) ==
    IF Len(prices) = 0 THEN None
    ELSE Some(EmaFold(prices, period + 1,
                      Div(SumFromTo(prices, 1, Min2(period, Len(prices))), period), period))

ema(prices, period) ==
    IF Len(prices) < period THEN None
    ELSE Some(EmaFold(prices, period + 1, Div(SumFromTo(prices, 1, period), period), period))

sma(prices, period) ==
    IF Len(prices) >= period
    THEN Some(Div(SumFromTo(prices, Len(prices) - period + 1, Len(prices)), period))
    ELSE None

RECURSIVE GainSum(_, _, _)
\* sum of max(prices[i] - prices[i-1], 0) over the first `period` deltas
GainSum(prices, i, period) ==
    IF i > period THEN 0
    ELSE Max2(prices[i + 1] - prices[i], 0) + GainSum(prices, i + 1, period)

RECURSIVE LossSum(_, _, _)
LossSum(prices, i, period) ==
    IF i > period THEN 0
    ELSE Max2(prices[i] - prices[i + 1], 0) + LossSum(prices, i + 1, period)

\* rsi in thousandths; ag, al in units of 1e-10 so that the epsilon is one unit
rsi(prices, period) ==
    IF Len(prices) < period + 1 THEN None
    ELSE LET ag == Div(GainSum(prices, 1, period) * 10, period)
             al == Div(LossSum(prices, 1, period) * 10, period)
             rs == Div(ag * RSI_SCALE, al + RSI_EPS)
         IN  Some(100 * RSI_SCALE - Div(100 * RSI_SCALE * RSI_SCALE, RSI_SCALE + rs))

RECURSIVE SqDevSum(_, _, _)
SqDevSum(prices, i, mid) ==
    IF i > Len(prices) THEN 0
    ELSE (prices[i] - mid) * (prices[i] - mid) + SqDevSum(prices, i + 1, mid)

\* (upper, mid, lower), each None on insufficient data
bollinger(prices, period, sd) ==
    LET mid == sma(prices, period)
    IN  IF mid = None THEN <<None, None, None>>
        ELSE LET var == SqDevSum(prices, Len(prices) - period + 1, Val(mid)) \div period
                 std == Sqrt(var)
             IN  <<Some(Val(mid) + sd * std), mid, Some(Val(mid) - sd * std)>>

\* true range of bar i+1 against the close of bar i, i in 1..Len-1
TrueRange(highs, lows, closes, i) ==
    Max2(highs[i + 1] - lows[i + 1],
         Max2(Abs(highs[i + 1] - closes[i]), Abs(lows[i + 1] - closes[i])))

RECURSIVE AtrFold(_, _, _, _)
AtrFold(trs, i, val, period) ==
    IF i > Len(trs) THEN val
    ELSE AtrFold(trs, i + 1, Div(val * (period - 1) + trs[i], period), period)

atr(highs, lows, closes, period) ==
    IF Len(highs) < period + 1 THEN None
    ELSE LET trs == [i \in 1..(Len(highs) - 1) |-> TrueRange(highs, lows, closes, i)]
         IN  Some(AtrFold(trs, period + 1, Div(SumFromTo(trs, 1, period), period), period))

\* Python truthiness of an optional number: None and 0.0 are false
Truthy(o) == o # None /\ Val(o) # 0

macd(prices) ==
    LET fast == ema(prices, 12)
        slow == ema(prices, 26)
    IN  IF Truthy(fast) /\ Truthy(slow) THEN Some(Val(fast) - Val(slow)) ELSE None

classify_trend(ema9, ema21, sma20) ==
    IF Truthy(ema9) /\ Truthy(ema21) /\ Truthy(sma20)
    THEN IF Val(ema9) > Val(ema21) /\ Val(ema21) > Val(sma20) THEN "Trend"
         ELSE IF Val(ema9) > Val(ema21) THEN "Swing"
         ELSE "Scalp"
    ELSE "Scalp"

\* ------------------------------------------------------- market data
\* One candle as get_candles builds it from the exchange's kline row.
Candle(h, l, c, v) == [high |-> h, low |-> l, close |-> c, volume |-> v]

\* A candle list of n candles: closes follow base + step*(i-1), zigzag by amp
\* around it, and the latest close is moved by jump.
Series(n, sh) ==
    [i \in 1..n |->
        LET c == sh.base + sh.step * (i - 1)
                 + (IF i % 2 = 0 THEN sh.amp ELSE -sh.amp)
                 + (IF i = n THEN sh.jump ELSE 0)
        IN  Candle(c + sh.spread, c - sh.spread, c, sh.vol)]

Shape(b, st, a, j, sp, v) ==
    [base |-> b, step |-> st, amp |-> a, jump |-> j, spread |-> sp, vol |-> v]

\* market conditions the exchange can report
Shapes ==
    { Shape(1000000, st, 2000, j, 500, 5000) :
        st \in {-1000, 0, 1000}, j \in {-12000, 0, 12000} }
    \cup { Shape(1953125, 0, 0, 0, 500, 5000),     \* flat market at 2^-9, exact as a float
           Shape(1000000, 0, 2000, 0, 500, 999),   \* thin volume
           Shape(1000000, 0, 100, 0, 0, 5000),     \* low volatility
           Shape(300, 0, 100, 0, 50, 5000),        \* price below one micro-unit
           Shape(10000, 0, 1000, 0, 100, 5000),    \* price of a few micro-units
           Shape(0, 0, 0, 0, 0, 5000) }            \* all-zero rows

\* what get_candles can return: [] when the request fails, else the rows
CandleLists ==
    { Series(n, sh) : n \in {MIN_CANDLES, MaxCandles}, sh \in Shapes }
    \cup { Series(n, Shape(1000000, 0, 2000, 0, 500, 5000)) : n \in {0, MIN_CANDLES - 1} }

\* --------------------------------------------------------------- analyzer
Closes(candles) == [i \in 1..Len(candles) |-> candles[i].close]
Highs(candles) == [i \in 1..Len(candles) |-> candles[i].high]
Lows(candles) == [i \in 1..Len(candles) |-> candles[i].low]

\* data[tf] of analyze, for a list of at least MIN_CANDLES candles
Snapshot(candles) ==
    LET closes == Closes(candles)
        bb == bollinger(closes, 20, 2)
    IN  [close  |-> closes[Len(closes)],
         ema9   |-> ema(closes, 9),
         ema21  |-> ema(closes, 21),
         sma20  |-> sma(closes, 20),
         rsi    |-> rsi(closes, 14),
         macd   |-> macd(closes),
         bb_up  |-> bb[1],
         bb_mid |-> bb[2],
         bb_low |-> bb[3],
         atr    |-> atr(Highs(candles), Lows(candles), closes, 14),
         volume |-> candles[Len(candles)].volume]

\* the snapshot of every candle list the exchange can return, computed once
SnapshotOf == [c \in {l \in CandleLists : Len(l) >= 26} |-> Snapshot(c)]

\* the admission filter without its volatility test
AdmissionNoAtr(tf) ==
    IF tf.volume < MIN_VOLUME \/ tf.atr = None \/ tf.rsi = None THEN "reject"
    ELSE IF tf.close = 0 THEN "raise"
    ELSE IF ~(RSI_ZONE[1] * RSI_SCALE < Val(tf.rsi) /\ Val(tf.rsi) < RSI_ZONE[2] * RSI_SCALE)
         THEN "reject"
    ELSE "pass"

\* the admission filter on the reference timeframe: "reject" (return None),
\* "raise" (ZeroDivisionError of atr / close) or "pass"
Admission(tf) ==
    IF tf.volume < MIN_VOLUME \/ tf.atr = None \/ tf.rsi = None THEN "reject"
    ELSE IF tf.close = 0 THEN "raise"
    ELSE IF Val(tf.atr) * 1000 < MIN_ATR_PCT * tf.close THEN "reject"
    ELSE IF ~(RSI_ZONE[1] * RSI_SCALE < Val(tf.rsi) /\ Val(tf.rsi) < RSI_ZONE[2] * RSI_SCALE)
         THEN "reject"
    ELSE "pass"

\* a snapshot the voting loop cannot use
Missing(d) == d.ema21 = None \/ d.bb_up = None \/ d.bb_low = None

\* band breakouts read as reversals: the sides of the first two branches swapped
VoteReversal(d) ==
    IF d.close > Val(d.bb_up) THEN "SHORT"
    ELSE IF d.close < Val(d.bb_low) THEN "LONG"
    ELSE IF d.close > Val(d.ema21) THEN "LONG"
    ELSE IF d.close < Val(d.ema21) THEN "SHORT"
    ELSE ""

\* the vote one timeframe appends to sides; "" when it appends nothing
Vote(d) ==
    IF d.close > Val(d.bb_up) THEN "LONG"
    ELSE IF d.close < Val(d.bb_low) THEN "SHORT"
    ELSE IF d.close > Val(d.ema21) THEN "LONG"
    ELSE IF d.close < Val(d.ema21) THEN "SHORT"
    ELSE ""

RECURSIVE SidesFrom(_, _)
\* the list sides after the voting loop over data.values(), from timeframe i on
SidesFrom(dat, i) ==
    IF i > Len(INTERVALS) THEN <<>>
    ELSE LET v == Vote(dat[INTERVALS[i]])
         IN  (IF v = "" THEN <<>> ELSE <<v>>) \o SidesFrom(dat, i + 1)

\* any vote at all is taken for agreement: len(sides) >= 1
ConsensusAnyVote(sd) == Len(sd) >= 1

\* len(set(sides)) == 1
Consensus(sd) == Cardinality({sd[i] : i \in 1..Len(sd)}) = 1

RECURSIVE ClosestFromLast(_, _, _, _)
\* the minimum taken with <=: of equally close sources the last one wins
ClosestFromLast(vs, i, price, best) ==
    IF i > Len(vs) THEN best
    ELSE IF vs[i] = None THEN ClosestFromLast(vs, i + 1, price, best)
    ELSE IF best = None \/ Abs(Val(vs[i]) - price) <= Abs(Val(best) - price)
         THEN ClosestFromLast(vs, i + 1, price, vs[i])
    ELSE ClosestFromLast(vs, i + 1, price, best)

RECURSIVE ClosestFrom(_, _, _, _)
\* min(vs[i:], key=|x - price|) against the best so far: the first minimum wins
ClosestFrom(vs, i, price, best) ==
    IF i > Len(vs) THEN best
    ELSE IF vs[i] = None THEN ClosestFrom(vs, i + 1, price, best)
    ELSE IF best = None \/ Abs(Val(vs[i]) - price) < Abs(Val(best) - price)
         THEN ClosestFrom(vs, i + 1, price, vs[i])
    ELSE ClosestFrom(vs, i + 1, price, best)

\* entry of analyze: the entry source closest to the price, None without sources
Entry(tf) == ClosestFrom(<<tf.sma20, tf.ema9, tf.ema21>>, 1, tf.close, None)

BbDir(tf) ==
    IF tf.close > Val(tf.bb_up) THEN "Up"
    ELSE IF tf.close < Val(tf.bb_low) THEN "Down" ELSE "No"

\* the rule score, in tenths (0.3 -> 3)
RuleScore(tf, bb_dir, trend) ==
      (IF Truthy(tf.macd) /\ Val(tf.macd) > 0 THEN 3 ELSE 0)
    + (IF Val(tf.rsi) < 30 * RSI_SCALE \/ Val(tf.rsi) > 70 * RSI_SCALE THEN 2 ELSE 0)
    + (IF bb_dir # "No" THEN 3 ELSE 1)
    + (IF trend = "Trend" THEN 2 ELSE 1)

\* hundredths per percent point: the unit of score and confidence
SCORE_SCALE == 100

\* the dict analyze returns (entry .. liq and margin in micro-units)
MakeSignal(symbol, side, tf) ==
    LET entry == Val(Entry(tf))
        trend == classify_trend(tf.ema9, tf.ema21, tf.sma20)
        bb_dir == BbDir(tf)
        long == side = "LONG"
    IN  [symbol   |-> symbol,
         side     |-> side,
         type     |-> trend,
         score    |-> RuleScore(tf, bb_dir, trend) * 10 * SCORE_SCALE,
         entry    |-> Round6(entry, 1),
         tp       |-> Round6(entry * (IF long THEN 1015 ELSE 985), 1000),
         sl       |-> Round6(entry * (IF long THEN 985 ELSE 1015), 1000),
         trail    |-> Round6(entry * (IF long THEN 1000 - ENTRY_BUFFER_PCT
                                              ELSE 1000 + ENTRY_BUFFER_PCT), 1000),
         margin   |-> RoundHalfEven(ACCOUNT_BALANCE * RISK_PCT * 10000, LEVERAGE),
         market   |-> tf.close,
         liq      |-> Round6(entry * (IF long THEN LEVERAGE - 1 ELSE LEVERAGE + 1), LEVERAGE),
         bb_slope |-> bb_dir,
         time     |-> "now"]

NoSignal == [kind |-> "None"]
Raised == [kind |-> "raise"]
Returned(sig) == [kind |-> "signal", sig |-> sig]

\* sides as analyze leaves it: empty unless the voting loop ran to its end
SidesOf(dat) ==
    IF Admission(dat["1h"]) # "pass" THEN <<>>
    ELSE IF \E i \in 1..Len(INTERVALS) : Missing(dat[INTERVALS[i]]) THEN <<>>
    ELSE SidesFrom(dat, 1)

\* analyze from the admission filter on, for the snapshots of all timeframes
Decide(symbol, dat) ==
    LET tf == dat["1h"]
        adm == Admission(tf)
        sd == SidesOf(dat)
    IN  IF adm = "raise" THEN Raised
        ELSE IF adm = "reject" THEN NoSignal
        ELSE IF \E i \in 1..Len(INTERVALS) : Missing(dat[INTERVALS[i]]) THEN NoSignal
        ELSE IF ~Consensus(sd) THEN NoSignal
        ELSE IF Entry(tf) = None THEN NoSignal
        ELSE Returned(MakeSignal(symbol, sd[1], tf))

\* off by one: a list of MIN_CANDLES - 1 candles is let through
TooShortOffByOne(candles) == Len(candles) < MIN_CANDLES - 1

\* len(candles) < 30: analyze returns None
TooShort(candles) == Len(candles) < MIN_CANDLES

\* number of get_candles calls analyze makes: it stops at the first short list
Fetched(feed) ==
    IF \E i \in 1..Len(INTERVALS) : TooShort(feed[INTERVALS[i]])
    THEN CHOOSE i \in 1..Len(INTERVALS) :
            /\ TooShort(feed[INTERVALS[i]])
            /\ \A j \in 1..(i - 1) : ~TooShort(feed[INTERVALS[j]])
    ELSE Len(INTERVALS)

Complete(feed) == \A i \in 1..Len(INTERVALS) : ~TooShort(feed[INTERVALS[i]])

\* len(candles) of each get_candles call made
LensOf(feed) == [i \in 1..Fetched(feed) |-> Len(feed[INTERVALS[i]])]

\* the dict data when analyze leaves its fetch loop
DataOf(feed) ==
    LET k == IF Complete(feed) THEN Len(INTERVALS) ELSE Fetched(feed) - 1
    IN  [tf \in {INTERVALS[i] : i \in 1..k} |-> SnapshotOf[feed[tf]]]

\* analyze(symbol), feed[tf] being what get_candles(symbol, tf) returns
analyze(symbol, feed) ==
    IF ~Complete(feed) THEN NoSignal ELSE Decide(symbol, DataOf(feed))

\* ------------------------------------------------- indicator inputs
\* the periods analyze and macd pass to the indicators
Periods == {9, 12, 14, 20, 21, 26}

\* candle lists of every length up to MaxCandles: a ranging and a rising market
IndicatorInputs ==
    { SubSeq(Series(MaxCandles, Shape(1000000, st, 2000, 0, 500, 5000)), 1, n) :
        st \in {0, 1000}, n \in 0..MaxCandles }

\* every indicator applied to one candle list
Indicators(candles, period) ==
    [ema       |-> ema(Closes(candles), period),
     sma       |-> sma(Closes(candles), period),
     rsi       |-> rsi(Closes(candles), period),
     bollinger |-> bollinger(Closes(candles), period, 2),
     atr       |-> atr(Highs(candles), Lows(candles), Closes(candles), period),
     macd      |-> macd(Closes(candles))]

\* ------------------------------------------- reference snapshots
\* distance of an entry source (sma20, ema9, ema21) from the close
SourceOffsets == {-2000, -1000, 1000, 2000}
\* rsi values inside RSI_ZONE, the thresholds 30 and 70 of the rule score included
RsiLevels == {25000, 30000, 50000, 70000, 75000}
MacdLevels == {-500, 500}
\* 2 * std of the bands: narrow (the close breaks out) and wide (it stays inside)
BandWidths == {500, 4000}

\* values data['1h'] can hold when analyze reaches line 167
RefSnapshots ==
    { [close  |-> 1000000,
       ema9   |-> Some(1000000 + e9),
       ema21  |-> Some(1000000 + e21),
       sma20  |-> Some(1000000 + s20),
       rsi    |-> Some(r),
       macd   |-> Some(m),
       bb_up  |-> Some(1000000 + s20 + w),
       bb_mid |-> Some(1000000 + s20),
       bb_low |-> Some(1000000 + s20 - w),
       atr    |-> Some(2000),
       volume |-> 5000] :
         e9 \in SourceOffsets, e21 \in SourceOffsets, s20 \in SourceOffsets,
         r \in RsiLevels, m \in MacdLevels, w \in BandWidths }

\* ------------------------------------------------------------ the scorer
\* dict.get(k, default) and d[k] = v
Get(d, k, default) == IF k \in DOMAIN d THEN d[k] ELSE default
Put(d, k, v) == [x \in DOMAIN d \cup {k} |-> IF x = k THEN v ELSE d[x]]

\* the model path without the cap at 100
EnhanceWithModelUncapped(signal, p, jit) ==
    LET score == RoundHalfEven(p, 10)
        conf == ((score + jit) \div SCORE_SCALE) * SCORE_SCALE
    IN  Put(Put(signal, "score", score), "confidence", conf)

\* the model path building a fresh dict instead of updating the signal
EnhanceWithModelFresh(signal, p, jit) ==
    LET score == RoundHalfEven(p, 10)
        conf == (Min2(score + jit, 100 * SCORE_SCALE) \div SCORE_SCALE) * SCORE_SCALE
    IN  [symbol |-> signal.symbol, score |-> score, confidence |-> conf]

\* enhance_signal with a model: p is predict_proba(...)[0][1] in units of 1e-5,
\* jit is np.random.uniform(0, 10) in hundredths; int() truncates the confidence
EnhanceWithModel(signal, p, jit) ==
    LET score == RoundHalfEven(p, 10)
        conf == (Min2(score + jit, 100 * SCORE_SCALE) \div SCORE_SCALE) * SCORE_SCALE
    IN  Put(Put(signal, "score", score), "confidence", conf)

\* the fallback overwriting the score with the default
EnhanceFallbackDefaultOnly(signal) ==
    Put(Put(signal, "score", 60 * SCORE_SCALE), "confidence", Get(signal, "confidence", 70 * SCORE_SCALE))

\* enhance_signal without a model
EnhanceFallback(signal) ==
    LET scored == Put(signal, "score", Get(signal, "score", 60 * SCORE_SCALE))
    IN  Put(scored, "confidence", Get(scored, "confidence", 70 * SCORE_SCALE))

\* MLFilter.enhance_signal: the dict is updated in place and returned
enhance_signal(mdl, signal, p, jit) ==
    IF mdl # None THEN EnhanceWithModel(signal, p, jit) ELSE EnhanceFallback(signal)

\* what _load_model returns: None, or the classifier of MODEL_PATH
Models == {None, Some("XGBClassifier")}

\* positive-class probabilities a classifier can return, in units of 1e-5
Probs == {0, 4, 5, 15, 40000, 80000, 80050, 80505, 99996, 100000}

\* values of np.random.uniform(0, 10), in hundredths
Jitters == {0, 20, 50, 99, 100, 500, 999}

\* the three timeframes reporting the same candle list
SameFeed(c) == [tf \in {"15m", "1h", "4h"} |-> c]

\* dicts analyze returns
RawSignals ==
    { r.sig : r \in { x \in { analyze("BTCUSDT", SameFeed(c)) : c \in CandleLists } :
                        x.kind = "signal" } }

Without(d, k) == [x \in DOMAIN d \ {k} |-> d[x]]

\* dicts a caller can pass to enhance_signal: raw signals, signals without a
\* score, signals that already carry a confidence
SignalDicts ==
    RawSignals
    \cup { Without(sg, "score") : sg \in RawSignals }
    \cup { Put(sg, "confidence", c) : sg \in RawSignals, c \in {5500, 9000} }

\* ------------------------------------------------------------- the scan
\* symbols get_usdt_symbols can return, by turnover
SymbolPool == <<"BTCUSDT", "ETHUSDT", "SOLUSDT", "XRPUSDT", "DOGEUSDT">>
\* most symbols of one scan in the model
MaxSymbols == 3
\* largest TOP_N_SIGNALS setting in the model (the settings slider gives 1..10)
MaxTopN == 3

\* value comparison of the sort: ascending, so the worst signals come first
InsertAscending(sorted, x) ==
    LET n == Cardinality({i \in 1..Len(sorted) : sorted[i].score <= x.score})
    IN  SubSeq(sorted, 1, n) \o <<x>> \o SubSeq(sorted, n + 1, Len(sorted))

\* the sort placing equal scores last-in first: not stable
InsertUnstable(sorted, x) ==
    LET n == Cardinality({i \in 1..Len(sorted) : sorted[i].score > x.score})
    IN  SubSeq(sorted, 1, n) \o <<x>> \o SubSeq(sorted, n + 1, Len(sorted))

\* x goes behind every element whose score is at least its own
Insert(sorted, x) ==
    LET n == Cardinality({i \in 1..Len(sorted) : sorted[i].score >= x.score})
    IN  SubSeq(sorted, 1, n) \o <<x>> \o SubSeq(sorted, n + 1, Len(sorted))

RECURSIVE SortFrom(_, _, _)
SortFrom(list, i, sorted) ==
    IF i > Len(list) THEN sorted ELSE SortFrom(list, i + 1, Insert(sorted, list[i]))

\* list.sort(key=lambda x: x.get("score", 0), reverse=True): stable, descending
SortByScore(list) == SortFrom(list, 1, <<>>)

\* signals[:top_n_signals]
Truncate(list, n) == SubSeq(list, 1, Min2(n, Len(list)))

\* candle lists of the scan: a breakout up, a breakout down, all-zero rows
\* and a failed fetch
ScanLists ==
    { Series(MIN_CANDLES, Shape(1000000, 0, 2000, 12000, 500, 5000)),
      Series(MIN_CANDLES, Shape(1000000, 0, 2000, -12000, 500, 5000)),
      Series(MIN_CANDLES, Shape(0, 0, 0, 0, 0, 5000)),
      Series(0, Shape(1000000, 0, 2000, 0, 500, 5000)) }

\* probabilities and jitters drawn during a scan
ScanProbs == {40000, 80505}
ScanJitters == {20, 999}

\* ------------------------------------------------------------- features
\* signal.get(k) of a text field: "None" stands for Python's None
GetText(d, k) == IF k \in DOMAIN d THEN d[k] ELSE "None"

\* the trend feature without its sign: Down counted like Neutral
extract_features_unsigned(signal) ==
    << Get(signal, "entry", 0), Get(signal, "tp", 0), Get(signal, "sl", 0),
       Get(signal, "trail", 0), Get(signal, "score", 0), Get(signal, "confidence", 0),
       IF GetText(signal, "side") = "LONG" THEN 1 ELSE 0,
       IF GetText(signal, "trend") = "Up" THEN 1 ELSE 0,
       IF GetText(signal, "regime") = "Breakout" THEN 1 ELSE 0 >>

\* MLFilter.extract_features: the np.array as a tuple
extract_features(signal) ==
    << Get(signal, "entry", 0), Get(signal, "tp", 0), Get(signal, "sl", 0),
       Get(signal, "trail", 0), Get(signal, "score", 0), Get(signal, "confidence", 0),
       IF GetText(signal, "side") = "LONG" THEN 1 ELSE 0,
       IF GetText(signal, "trend") = "Up" THEN 1
       ELSE IF GetText(signal, "trend") = "Down" THEN -1 ELSE 0,
       IF GetText(signal, "regime") = "Breakout" THEN 1 ELSE 0 >>

\* values a caller can store under trend and regime; "absent" leaves the key out
TrendValues == {"absent", "Up", "Down", "Neutral"}
RegimeValues == {"absent", "Breakout", "Mean"}

PutUnlessAbsent(d, k, v) == IF v = "absent" THEN d ELSE Put(d, k, v)

WithoutIfPresent(d, k) == IF k \in DOMAIN d THEN Without(d, k) ELSE d

\* dicts a caller can pass to extract_features: the enhance_signal inputs and
\* the empty dict, with or without trend and regime, with one key taken away
FeatureInputs ==
    { WithoutIfPresent(PutUnlessAbsent(PutUnlessAbsent(sg, "trend", t), "regime", r), k) :
        sg \in SignalDicts \cup {<<>>}, t \in TrendValues, r \in RegimeValues,
        k \in {"none", "entry", "side", "trail"} }

\* -------------------------------------------------------------- training
\* len(df) < 30
MIN_SAMPLES == 30
\* most records of trades.json, and most signal files, in the model
MaxTrades == 31
MaxVirtual == 1

\* the keys load_signals_as_virtual_trades gives every virtual trade
VirtualColumns ==
    {"symbol", "entry", "tp", "sl", "trail", "score", "confidence",
     "side", "trend", "regime", "profit"}

\* the keys the records of trades.json have: append_live_trade stores any
\* dict, so a key may be absent from all of them, or all keys from all
TradeColumnSets ==
    { VirtualColumns \ d : d \in SUBSET {"entry", "side", "trend", "regime", "profit"} }
        \cup {{}}

\* pd.DataFrame(all_trades).columns: the union of the keys of all records
Columns(r, cols, v) ==
    (IF r > 0 THEN cols ELSE {}) \cup (IF v > 0 THEN VirtualColumns ELSE {})

\* the columns the encoding reads, df[...] raising KeyError for an absent one
EncodedColumns == {"side", "trend", "regime"}

\* df.columns after the three *_enc columns were added
WithEncoded(cols) == cols \cup {"side_enc", "trend_enc", "regime_enc"}

required_cols ==
    {"entry", "tp", "sl", "trail", "score", "confidence",
     "side_enc", "trend_enc", "regime_enc"}

\* what model.fit does depends on the values of the records: it returns or raises
FitOutcomes == {"trained", "raised"}

\* train_from_history on a frame of n records with the columns cols
train_from_history(n, cols, fit) ==
    IF cols = {} \/ n < MIN_SAMPLES THEN "returned"
    ELSE IF ~(EncodedColumns \subseteq cols) THEN "raised"
    ELSE IF ~(required_cols \subseteq WithEncoded(cols)) THEN "returned"
    ELSE IF "profit" \notin cols THEN "raised"
    ELSE fit

\* ------------------------------------------------------------ automation
\* seconds: the sleeps of automation_cycle and the join timeout of stop
SLEEP_IDLE == 30
SLEEP_RISK == 60
SLEEP_ERROR == 90
JOIN_TIMEOUT == 10
\* the clock advances in steps of TICK seconds, the largest step that meets
\* every sleep and the join timeout, MaxTicks times
TICK == JOIN_TIMEOUT
MaxTicks == 10
\* most automation threads start() creates in the model
MaxThreads == 2

\* settings and their defaults
SCAN_INTERVAL == 900
MAX_SIGNALS == 5
MAX_DRAWDOWN == 20
MAX_DAILY_TRADES == 50
\* capital_data.get("capital", 100), in the account currency
CAPITAL == 100
\* round(float(max_drawdown), 2): percentages are kept in hundredths
PCT_SCALE == 100

\* a stored trade: pnl is None while the trade is open; today tells whether
\* its timestamp has today's date
StoredTrade(p, t) == [pnl |-> p, today |-> t]

\* what the constructor finds in the database: the SCAN_INTERVAL and
\* MAX_DAILY_TRADES settings and the rows of the trades table, oldest first
Database(interval, daily, book) ==
    [SCAN_INTERVAL |-> interval, MAX_DAILY_TRADES |-> daily, trades |-> book]

Databases ==
    { Database(SCAN_INTERVAL, MAX_DAILY_TRADES, <<>>),
      Database(SCAN_INTERVAL, MAX_DAILY_TRADES, <<StoredTrade(Some(-50), TRUE)>>),
      Database(60, MAX_DAILY_TRADES, <<StoredTrade(Some(-20), FALSE)>>),
      Database(60, 1, <<StoredTrade(Some(-10), FALSE)>>),
      Database(SCAN_INTERVAL, 1,
               <<StoredTrade(Some(30), TRUE), StoredTrade(Some(-10), TRUE)>>),
      Database(SCAN_INTERVAL, MAX_DAILY_TRADES, <<StoredTrade(None, TRUE)>>) }

\* equity_curve.append(equity_curve[-1] + float(pnl)) for every trade
RECURSIVE EquityFrom(_, _, _)
EquityFrom(book, i, curve) ==
    IF i > Len(book) THEN curve
    ELSE EquityFrom(book, i + 1, Append(curve, curve[Len(curve)] + Val(book[i].pnl)))

EquityCurve(book) == EquityFrom(book, 1, <<CAPITAL>>)

\* series.cummax() at position i
RECURSIVE PeakAt(_, _)
PeakAt(curve, i) == IF i = 1 THEN curve[1] ELSE Max2(PeakAt(curve, i - 1), curve[i])

\* (series - peak) / peak * 100 at position i, rounded to hundredths
DrawdownAt(curve, i) ==
    RoundHalfEven((curve[i] - PeakAt(curve, i)) * 100 * PCT_SCALE, PeakAt(curve, i))

\* drawdown.min() of a non-empty range
RECURSIVE MinDrawdown(_, _)
MinDrawdown(curve, i) ==
    IF i = 1 THEN DrawdownAt(curve, 1)
    ELSE Min2(MinDrawdown(curve, i - 1), DrawdownAt(curve, i))

\* utils.calculate_drawdown: the first element of the pair, in hundredths
calculate_drawdown(curve) ==
    IF Len(curve) < 2 THEN 0 ELSE MinDrawdown(curve, Len(curve))

\* len(self.get_today_trades())
TodayTrades(book) == Cardinality({i \in 1..Len(book) : book[i].today})

\* check_risk_limits: "True", "False", or "raise" for the AttributeError of
\* trade.get on a Trade row whose pnl is None
check_risk_limits(book, limit, daily) ==
    IF \E i \in 1..Len(book) : book[i].pnl = None THEN "raise"
    ELSE IF calculate_drawdown(EquityCurve(book)) >= limit * PCT_SCALE THEN "False"
    ELSE IF TodayTrades(book) >= daily THEN "False"
    ELSE "True"

\* how engine.run_once ends for the cycle: it raises, or returns this many signals
RunOnceOutcomes == {[kind |-> "raise"]} \cup {[kind |-> "return", n |-> k] : k \in {0, MaxTopN}}

\* the methods of DatabaseManager
DatabaseManagerMethods ==
    {"get_session", "add_signal", "get_last_signal", "get_signals", "add_trade",
     "get_trades", "get_recent_trades", "get_open_trades", "close_trade",
     "update_portfolio_balance", "get_portfolio", "set_setting", "get_setting",
     "get_all_settings", "get_automation_stats", "get_daily_pnl_pct",
     "_settings_file", "_load_settings_from_file", "_save_settings_to_file",
     "update_setting", "reset_all_settings_to_defaults", "get_signals_count",
     "get_trades_count", "get_portfolio_count", "get_db_health"}

\* a thread running automation_cycle: alive until the loop ends, and asleep
\* until the time wake
CycleThread(w) == [alive |-> TRUE, wake |-> w]

\* a thread whose automation_cycle has returned
EndedThread == [alive |-> FALSE, wake |-> 0]

\* -------------------------------------------------------- virtual orders
\* monitor_virtual_orders(check_interval=10, max_checks=6), and the age in
\* seconds beyond which an open order is filled
CHECK_INTERVAL == 10
MAX_CHECKS == 6
FILL_AFTER == 30
\* int(time.time() * 1000)
MS == 1000
\* most virtual orders placed in the model, and the steps of TICK seconds the
\* clock of the client makes
MaxOrders == 2
MaxOrderTicks == 7

\* the environment BybitClient() reads: USE_REAL_TRADING, BYBIT_TESTNET, whether
\* pybit imports, whether both API keys are set, whether HTTP(...) succeeds
Environments ==
    [real : BOOLEAN, testnet : BOOLEAN, pybit : BOOLEAN, keys : BOOLEAN, http : BOOLEAN]

\* self.client after __init__
ClientOf(env) ==
    IF env.real /\ ~env.testnet /\ env.pybit /\ env.keys /\ env.http
    THEN Some("HTTP") ELSE None

\* self._virtual_orders after __init__: the conflict check returns before the
\* attribute is set
OrdersOf(env) == IF env.real /\ env.testnet THEN None ELSE Some(<<>>)

\* symbol and side of the place_order calls in the model
OrderRequests == {<<"BTCUSDT", "LONG">>, <<"ETHUSDT", "SHORT">>}

\* a virtual order that starts as pending
VirtualOrderPending(id, req, t) ==
    [order_id |-> id, symbol |-> req[1], side |-> req[2], status |-> "pending",
     create_time |-> t]

\* the dict place_order appends in virtual mode
VirtualOrder(id, req, t) ==
    [order_id |-> id, symbol |-> req[1], side |-> req[2], status |-> "open",
     create_time |-> t]

\* order["status"] == "open" and elapsed > timedelta(seconds=30)
Due(order, t) == order.status = "open" /\ t - order.create_time > FILL_AFTER

\* the for loop of a check filling every order, whatever its status
FillAll(orders, t) ==
    [i \in 1..Len(orders) |->
        IF t - orders[i].create_time > FILL_AFTER
        THEN Put(Put(orders[i], "status", "filled"), "fill_time", t) ELSE orders[i]]

\* the for loop of a check: the orders that are due get status filled
FillDue(orders, t) ==
    [i \in 1..Len(orders) |->
        IF Due(orders[i], t)
        THEN Put(Put(orders[i], "status", "filled"), "fill_time", t) ELSE orders[i]]

\* a check that leaves the filled orders in the list
KeepFilled(orders) == orders

\* [o for o in self._virtual_orders if o["status"] != "filled"]
Unfilled(orders) == SelectSeq(orders, LAMBDA o : o.status # "filled")

\* the first order of the list cancel_order's test accepts, 0 if there is none;
\* no virtual order has the key order_link_id
FirstMatch(orders, order_id) ==
    IF order_id # None /\ \E i \in 1..Len(orders) : orders[i].order_id = Val(order_id)
    THEN CHOOSE i \in 1..Len(orders) :
            /\ orders[i].order_id = Val(order_id)
            /\ \A j \in 1..(i - 1) : orders[j].order_id # Val(order_id)
    ELSE 0

\* get_open_orders in virtual mode: the list open_orders
OpenOrders(orders, symbol) ==
    SelectSeq(orders, LAMBDA o : o.symbol = symbol /\ o.status = "open")


\* -------------------------------------------------------- the execution
\* what place_order does on the client of the engine: "live" sends the order
\* to the exchange, "virtual" appends a virtual order, and "raise" is the
\* AttributeError of a client built without its _virtual_orders list
PlaceKind(env) ==
    IF env.real /\ ClientOf(env) # None THEN "live"
    ELSE IF OrdersOf(env) = None THEN "raise"
    ELSE "virtual"

\* the arguments run_once hands to place_order for a signal
OrderArgs(signal) ==
    [symbol |-> GetText(signal, "Symbol"), side |-> GetText(signal, "Side"),
     qty |-> Get(signal, "Qty", 0), price |-> Get(signal, "Entry", 0)]

\* the order_id of the answer of place_order: the virtual id, or
\* order.get("order_id", "") of a live answer
OrderIds(kind) == IF kind = "virtual" THEN {"virtual_1"} ELSE {"", "live_1"}

\* the trade dict run_once builds for a signal and the answer of place_order
TradeDict(signal, order_id, is_real) ==
    [symbol |-> GetText(signal, "Symbol"), side |-> GetText(signal, "Side"),
     qty |-> Get(signal, "Qty", 0), entry_price |-> Get(signal, "Entry", 0),
     exit_price |-> None, pnl |-> None, timestamp |-> "now", status |-> "open",
     order_id |-> order_id, virtual |-> ~is_real,
     sl |-> Get(signal, "SL", None), tp |-> Get(signal, "TP", None),
     leverage |-> Get(signal, "leverage", None),
     margin_usdt |-> Get(signal, "margin_usdt", None)]

\* the attributes of the Trade model
TradeAttributes ==
    {"id", "symbol", "side", "qty", "entry_price", "exit_price", "stop_loss",
     "take_profit", "leverage", "margin_usdt", "pnl", "timestamp", "status",
     "order_id", "virtual"}

\* db.add_trade: Trade(**trade_data) raises TypeError for a key that is not
\* an attribute of Trade; else the row is added to the table
add_trade(table, trade_data) ==
    IF DOMAIN trade_data \subseteq TradeAttributes
    THEN [kind |-> "ok", table |-> Append(table, trade_data)]
    ELSE [kind |-> "raise"]

\* ----------------------------------------------------------------- state
VARIABLES
    apc,      \* "idle" | "done": whether an analyze call has returned
    lens,     \* len(candles) of each get_candles call of the last analyze
    data,     \* the dict data of the last analyze
    sides,    \* the list sides of the last analyze
    raw,      \* what the last analyze returned
    model,    \* MLFilter.model
    spc,      \* "idle" | "done": whether an enhance_signal call has returned
    given,    \* the dict as it was passed to the last enhance_signal
    prob,     \* predict_proba(...)[0][1] of the last enhance_signal
    jitter,   \* np.random.uniform(0, 10) of the last enhance_signal
    enhanced, \* the dict the last enhance_signal returned
    pc,       \* position of TradingEngine.run_once
    symbols,  \* run_once: symbols
    symIdx,   \* run_once: index of the next symbol of the scan loop
    top_n_signals, \* run_once: top_n_signals
    signals,  \* run_once: signals
    scanned,  \* history: the signals in the order the scan loop appended them
    top_signals,   \* run_once: top_signals
    clientKind,    \* PlaceKind of the BybitClient the engine was built with
    clientReal,    \* self.client.use_real
    execIdx,       \* position of the execution loop in top_signals
    orderCalls,    \* the calls place_order(...) of the run, in order
    recorded,      \* the trades db.add_trade stored during the run
    monitored      \* whether the run called monitor_virtual_orders

\* the tail of analyze on its own: from the reference snapshot to the dict
VARIABLES
    lpc,      \* "idle" | "done": whether the levels of a snapshot were derived
    refTf,    \* analyze: tf, the reference snapshot data['1h']
    levels    \* the dict analyze builds from tf and side

\* the indicator library called on its own
VARIABLES
    ipc,       \* "idle" | "done": whether the indicators were computed
    inCandles, \* the candle list the series are taken from
    inPeriod,  \* period
    indOut     \* what ema, sma, rsi, bollinger, atr and macd returned

\* train_from_history called on its own
VARIABLES
    tpc,        \* "idle" | "done": whether a train_from_history call is over
    trainLen,   \* len(df)
    trainCols,  \* df.columns before the encoding
    trainEnd,   \* how the call ended: "returned" | "raised" | "trained"
    modelWas,   \* history: MLFilter.model when the call began
    dumped      \* history: whether the call executed joblib.dump(model, MODEL_PATH)

\* extract_features called twice on the same dict
VARIABLES
    fpc,          \* "idle" | "once" | "twice": the calls made so far
    featGiven,    \* history: the dict as it was before the first call
    featSignal,   \* the dict signal the calls are made on
    features,     \* what the first call returned
    featuresAgain \* what the second call returned

\* the AutomatedTrader singleton, its threads and the calls made on it
VARIABLES
    built,             \* whether AutomatedTrader() has been constructed
    now,               \* datetime.now(), in seconds since the construction
    is_running,        \* self.is_running
    automation_thread, \* self.automation_thread: 0 for None, else an index of threads
    threads,           \* every thread start() has created, in creation order
    last_run_time,     \* self.last_run_time
    signal_interval,   \* self.signal_interval
    max_daily_trades,  \* self.max_daily_trades
    trades,            \* the rows of the trades table, oldest first
    stats,             \* self.stats
    lastScan,          \* history: the time of the last run_once call of a cycle
    scanGap,           \* history: the time between the last two such calls
    risk,              \* history: what the last check_risk_limits call did
    call,              \* history: the last start, stop or get_status call
    status             \* what the last get_status call returned

\* the BybitClient instance, its virtual orders and the calls made on it, one
\* at a time: monitor_virtual_orders keeps its caller until it returns
VARIABLES
    cbuilt,         \* whether BybitClient() has been constructed
    use_real,       \* self.use_real
    use_testnet,    \* self.use_testnet
    client,         \* self.client: None or the pybit HTTP session
    virtual_orders, \* self._virtual_orders: None while the attribute is unset
    otime,          \* time.time(), in seconds since the construction
    placed,         \* history: the number of virtual orders placed so far
    sent,           \* history: the methods called on the HTTP session
    mpc,            \* "idle" | "loop": position of monitor_virtual_orders
    checks,         \* monitor_virtual_orders: checks, 0 outside the call
    ocall           \* the call that has just returned and what it returned

analyzerVars == <<apc, lens, data, sides, raw>>
scorerVars == <<spc, given, prob, jitter, enhanced>>
engineVars ==
    <<pc, symbols, symIdx, top_n_signals, signals, scanned, top_signals,
      clientKind, clientReal, execIdx, orderCalls, recorded, monitored>>
\* the part of the engine the execution loop works on
executionVars == <<clientKind, clientReal, execIdx, orderCalls, recorded, monitored>>
pipelineVars == <<analyzerVars, model, scorerVars, engineVars>>
levelVars == <<lpc, refTf, levels>>
indicatorVars == <<ipc, inCandles, inPeriod, indOut>>
trainVars == <<tpc, trainLen, trainCols, trainEnd, modelWas, dumped>>
featureVars == <<fpc, featGiven, featSignal, features, featuresAgain>>
autoVars == <<built, now, is_running, automation_thread, threads, last_run_time,
              signal_interval, max_daily_trades, trades, stats, lastScan, scanGap, risk,
              call, status>>
orderVars == <<cbuilt, use_real, use_testnet, client, virtual_orders, otime, placed,
               sent, mpc, checks, ocall>>
restVars == <<levelVars, indicatorVars, trainVars, featureVars, autoVars, orderVars>>
vars == <<pipelineVars, restVars>>

Init ==
    /\ apc = "idle"
    /\ lens = <<>>
    /\ data = <<>>
    /\ sides = <<>>
    /\ raw = NoSignal
    /\ model \in Models
    /\ spc = "idle"
    /\ given = <<>>
    /\ prob = 0
    /\ jitter = 0
    /\ enhanced = <<>>
    /\ pc = "idle"
    /\ symbols = <<>>
    /\ symIdx = 1
    /\ top_n_signals = 1
    /\ signals = <<>>
    /\ scanned = <<>>
    /\ top_signals = <<>>
    /\ clientKind = "virtual"
    /\ clientReal = FALSE
    /\ execIdx = 1
    /\ orderCalls = <<>>
    /\ recorded = <<>>
    /\ monitored = FALSE
    /\ lpc = "idle"
    /\ refTf = <<>>
    /\ levels = <<>>
    /\ ipc = "idle"
    /\ inCandles = <<>>
    /\ inPeriod = 0
    /\ indOut = <<>>
    /\ tpc = "idle"
    /\ trainLen = 0
    /\ trainCols = {}
    /\ trainEnd = ""
    /\ modelWas = None
    /\ dumped = FALSE
    /\ fpc = "idle"
    /\ featGiven = <<>>
    /\ featSignal = <<>>
    /\ features = <<>>
    /\ featuresAgain = <<>>
    /\ built = FALSE
    /\ now = 0
    /\ is_running = FALSE
    /\ automation_thread = 0
    /\ threads = <<>>
    /\ last_run_time = None
    /\ signal_interval = SCAN_INTERVAL
    /\ max_daily_trades = MAX_DAILY_TRADES
    /\ trades = <<>>
    /\ stats = [signals_generated |-> 0, last_update |-> None]
    /\ lastScan = None
    /\ scanGap = None
    /\ risk = ""
    /\ call = [op |-> ""]
    /\ status = <<>>
    /\ cbuilt = FALSE
    /\ use_real = FALSE
    /\ use_testnet = FALSE
    /\ client = None
    /\ virtual_orders = None
    /\ otime = 0
    /\ placed = 0
    /\ sent = {}
    /\ mpc = "idle"
    /\ checks = 0
    /\ ocall = [op |-> ""]

\* one call analyze(symbol) against the exchange
Analyze ==
    /\ apc = "idle"
    /\ \E feed \in [{"15m", "1h", "4h"} -> CandleLists] :
          /\ lens' = LensOf(feed)
          /\ data' = DataOf(feed)
          /\ sides' = IF Complete(feed) THEN SidesOf(data') ELSE <<>>
          /\ raw' = IF Complete(feed) THEN Decide(SymbolPool[1], data') ELSE NoSignal
    /\ apc' = "done"
    /\ UNCHANGED <<model, scorerVars, engineVars, restVars>>

\* the caller takes the result; the next call starts afresh
AnalyzeReturn ==
    /\ apc = "done"
    /\ apc' = "idle"
    /\ lens' = <<>>
    /\ data' = <<>>
    /\ sides' = <<>>
    /\ raw' = NoSignal
    /\ UNCHANGED <<model, scorerVars, engineVars, restVars>>

NextAnalyze == Analyze \/ AnalyzeReturn

SpecAnalyze == Init /\ [][NextAnalyze]_vars

\* one call enhance_signal(signal) with a classifier loaded
EnhanceModel ==
    /\ spc = "idle" /\ model # None
    /\ \E signal \in SignalDicts, p \in Probs, jit \in Jitters :
          /\ given' = signal
          /\ prob' = p
          /\ jitter' = jit
          /\ enhanced' = enhance_signal(model, signal, p, jit)
    /\ spc' = "done"
    /\ UNCHANGED <<analyzerVars, model, engineVars, restVars>>

\* one call enhance_signal(signal) without a classifier
EnhanceNoModel ==
    /\ spc = "idle" /\ model = None
    /\ \E signal \in SignalDicts :
          /\ given' = signal
          /\ enhanced' = enhance_signal(model, signal, 0, 0)
    /\ spc' = "done"
    /\ UNCHANGED <<prob, jitter, analyzerVars, model, engineVars, restVars>>

EnhanceReturn ==
    /\ spc = "done"
    /\ spc' = "idle"
    /\ given' = <<>>
    /\ prob' = 0
    /\ jitter' = 0
    /\ enhanced' = <<>>
    /\ UNCHANGED <<analyzerVars, model, engineVars, restVars>>

NextScore == EnhanceModel \/ EnhanceNoModel \/ EnhanceReturn

SpecScore == Init /\ [][NextScore]_vars

\* TradingEngine() and run_once up to the scan loop: the client built from
\* the environment, get_settings and get_usdt_symbols
RunOnceStart ==
    /\ pc = "idle"
    /\ \E env \in Environments :
          /\ clientKind' = PlaceKind(env)
          /\ clientReal' = env.real
    /\ \E n \in 1..MaxTopN : top_n_signals' = n
    /\ \E k \in 0..MaxSymbols : symbols' = SubSeq(SymbolPool, 1, k)
    /\ signals' = <<>>
    /\ scanned' = <<>>
    /\ top_signals' = <<>>
    /\ symIdx' = 1
    /\ pc' = "scan"
    /\ UNCHANGED <<execIdx, orderCalls, recorded, monitored>>
    /\ UNCHANGED <<analyzerVars, model, scorerVars, restVars>>

\* one iteration of the scan loop: analyze, and for a signal enhance_signal,
\* db.add_signal, the notifications and signals.append
ScanSymbol ==
    /\ pc = "scan" /\ symIdx <= Len(symbols)
    /\ \E c \in ScanLists, p \in ScanProbs, jit \in ScanJitters :
          LET r == analyze(symbols[symIdx], SameFeed(c))
          IN  /\ pc' = IF r.kind = "raise" THEN "raised" ELSE "scan"
              /\ signals' = IF r.kind = "signal"
                            THEN Append(signals, enhance_signal(model, r.sig, p, jit))
                            ELSE signals
    /\ scanned' = signals'
    /\ symIdx' = symIdx + 1
    /\ UNCHANGED <<analyzerVars, model, scorerVars, symbols, top_n_signals, top_signals,
                   executionVars, restVars>>

\* after the scan loop: return [] without signals, else sort and truncate
Rank ==
    /\ pc = "scan" /\ symIdx > Len(symbols)
    /\ signals' = SortByScore(signals)
    /\ top_signals' = Truncate(signals', top_n_signals)
    /\ pc' = IF signals = <<>> THEN "returned" ELSE "execute"
    /\ UNCHANGED <<analyzerVars, model, scorerVars, symbols, symIdx, top_n_signals, scanned,
                   executionVars, restVars>>

\* one iteration of the execution loop: place_order, whose exception skips
\* the signal, then the trade dict and db.add_trade, whose exception leaves
\* run_once
Execute ==
    /\ pc = "execute" /\ execIdx <= Len(top_signals)
    /\ LET signal == top_signals[execIdx]
       IN  /\ orderCalls' = Append(orderCalls, [args |-> OrderArgs(signal),
                                                raised |-> clientKind = "raise"])
           /\ IF clientKind = "raise"
              THEN /\ execIdx' = execIdx + 1
                   /\ UNCHANGED <<pc, recorded>>
              ELSE \E order_id \in OrderIds(clientKind) :
                      LET r == add_trade(recorded, TradeDict(signal, order_id, clientReal))
                      IN  IF r.kind = "raise"
                          THEN /\ pc' = "raised"
                               /\ UNCHANGED <<execIdx, recorded>>
                          ELSE /\ recorded' = r.table
                               /\ execIdx' = execIdx + 1
                               /\ UNCHANGED pc
    /\ UNCHANGED <<analyzerVars, model, scorerVars, symbols, symIdx, top_n_signals, signals,
                   scanned, top_signals, clientKind, clientReal, monitored, restVars>>

\* after the execution loop: the reports, monitor_virtual_orders on a client
\* that is not in real mode, and return top_signals
RunOnceFinish ==
    /\ pc = "execute" /\ execIdx > Len(top_signals)
    /\ monitored' = ~clientReal
    /\ pc' = "returned"
    /\ UNCHANGED <<analyzerVars, model, scorerVars, symbols, symIdx, top_n_signals, signals,
                   scanned, top_signals, clientKind, clientReal, execIdx, orderCalls, recorded,
                   restVars>>

\* run_once has returned or raised; the next scan starts afresh
RunOnceEnd ==
    /\ pc \in {"returned", "raised"}
    /\ pc' = "idle"
    /\ symbols' = <<>>
    /\ symIdx' = 1
    /\ top_n_signals' = 1
    /\ signals' = <<>>
    /\ scanned' = <<>>
    /\ top_signals' = <<>>
    /\ clientKind' = "virtual"
    /\ clientReal' = FALSE
    /\ execIdx' = 1
    /\ orderCalls' = <<>>
    /\ recorded' = <<>>
    /\ monitored' = FALSE
    /\ UNCHANGED <<analyzerVars, model, scorerVars, restVars>>

Next == RunOnceStart \/ ScanSymbol \/ Rank \/ Execute \/ RunOnceFinish \/ RunOnceEnd

Spec == Init /\ [][Next]_vars

\* analyze from line 167 on: side, trend, bb_dir, entry, levels and rule score
\* of a reference snapshot that passed the filter, side being the vote it cast
DeriveLevels ==
    /\ lpc = "idle"
    /\ \E t \in RefSnapshots :
          /\ Admission(t) = "pass" /\ Vote(t) # ""
          /\ refTf' = t
          /\ levels' = MakeSignal(SymbolPool[1], Vote(t), t)
    /\ lpc' = "done"
    /\ UNCHANGED <<pipelineVars, indicatorVars, trainVars, featureVars, autoVars, orderVars>>

LevelsReturn ==
    /\ lpc = "done"
    /\ lpc' = "idle"
    /\ refTf' = <<>>
    /\ levels' = <<>>
    /\ UNCHANGED <<pipelineVars, indicatorVars, trainVars, featureVars, autoVars, orderVars>>

NextLevels == DeriveLevels \/ LevelsReturn

SpecLevels == Init /\ [][NextLevels]_vars

\* one call of each indicator on the same series
ComputeIndicators ==
    /\ ipc = "idle"
    /\ \E c \in IndicatorInputs, p \in Periods :
          /\ inCandles' = c
          /\ inPeriod' = p
          /\ indOut' = Indicators(c, p)
    /\ ipc' = "done"
    /\ UNCHANGED <<pipelineVars, levelVars, trainVars, featureVars, autoVars, orderVars>>

IndicatorsReturn ==
    /\ ipc = "done"
    /\ ipc' = "idle"
    /\ inCandles' = <<>>
    /\ inPeriod' = 0
    /\ indOut' = <<>>
    /\ UNCHANGED <<pipelineVars, levelVars, trainVars, featureVars, autoVars, orderVars>>

NextIndicators == ComputeIndicators \/ IndicatorsReturn

SpecIndicators == Init /\ [][NextIndicators]_vars

\* one call train_from_history() on r records of trades.json and v signal files
Train ==
    /\ tpc = "idle"
    /\ \E r \in 0..MaxTrades, v \in 0..MaxVirtual, cols \in TradeColumnSets,
          fit \in FitOutcomes :
          /\ trainLen' = r + v
          /\ trainCols' = Columns(r, cols, v)
          /\ trainEnd' = train_from_history(trainLen', trainCols', fit)
    /\ modelWas' = model
    /\ dumped' = (trainEnd' = "trained")
    /\ model' = IF trainEnd' = "trained" THEN Some("XGBClassifier") ELSE model
    /\ tpc' = "done"
    /\ UNCHANGED <<analyzerVars, scorerVars, engineVars, levelVars, indicatorVars, featureVars, autoVars, orderVars>>

TrainReturn ==
    /\ tpc = "done"
    /\ tpc' = "idle"
    /\ trainLen' = 0
    /\ trainCols' = {}
    /\ trainEnd' = ""
    /\ modelWas' = None
    /\ dumped' = FALSE
    /\ UNCHANGED <<pipelineVars, levelVars, indicatorVars, featureVars, autoVars, orderVars>>

NextTrain == Train \/ TrainReturn

SpecTrain == Init /\ [][NextTrain]_vars

\* the first call extract_features(signal)
Extract ==
    /\ fpc = "idle"
    /\ \E sg \in FeatureInputs :
          /\ featGiven' = sg
          /\ featSignal' = sg
          /\ features' = extract_features(sg)
    /\ fpc' = "once"
    /\ UNCHANGED <<pipelineVars, levelVars, indicatorVars, trainVars, autoVars, orderVars, featuresAgain>>

\* a second call on the same dict
ExtractAgain ==
    /\ fpc = "once"
    /\ featuresAgain' = extract_features(featSignal)
    /\ fpc' = "twice"
    /\ UNCHANGED <<pipelineVars, levelVars, indicatorVars, trainVars, autoVars, orderVars,
                   featGiven, featSignal, features>>

FeaturesReturn ==
    /\ fpc = "twice"
    /\ fpc' = "idle"
    /\ featGiven' = <<>>
    /\ featSignal' = <<>>
    /\ features' = <<>>
    /\ featuresAgain' = <<>>
    /\ UNCHANGED <<pipelineVars, levelVars, indicatorVars, trainVars, autoVars, orderVars>>

NextFeatures == Extract \/ ExtractAgain \/ FeaturesReturn

SpecFeatures == Init /\ [][NextFeatures]_vars

otherVars == <<pipelineVars, levelVars, indicatorVars, trainVars, featureVars, orderVars>>

\* AutomatedTrader(): the settings are read from the database
Construct ==
    /\ ~built
    /\ built' = TRUE
    /\ \E d \in Databases :
          /\ signal_interval' = d.SCAN_INTERVAL
          /\ max_daily_trades' = d.MAX_DAILY_TRADES
          /\ trades' = d.trades
    /\ UNCHANGED <<otherVars, now, is_running, automation_thread, threads,
                   last_run_time, stats, lastScan, scanGap, risk, call, status>>

\* what a start or stop call found: the fields only these two calls write
Lifecycle == [running |-> is_running, thread |-> automation_thread, created |-> Len(threads)]

\* start() without the test of is_running: every call creates a thread
StartUnchecked ==
    /\ built
    /\ Len(threads) < MaxThreads
    /\ is_running' = TRUE
    /\ threads' = Append(threads, CycleThread(now))
    /\ automation_thread' = Len(threads')
    /\ call' = [op |-> "start", before |-> Lifecycle, ret |-> TRUE]
    /\ UNCHANGED <<otherVars, built, now, last_run_time, signal_interval,
                   max_daily_trades, trades, stats, lastScan, scanGap, risk, status>>

\* start(): on a stopped trader a new thread begins automation_cycle at once
Start ==
    /\ built
    /\ IF is_running
       THEN /\ call' = [op |-> "start", before |-> Lifecycle, ret |-> FALSE]
            /\ UNCHANGED <<is_running, automation_thread, threads>>
       ELSE /\ Len(threads) < MaxThreads
            /\ is_running' = TRUE
            /\ threads' = Append(threads, CycleThread(now))
            /\ automation_thread' = Len(threads')
            /\ call' = [op |-> "start", before |-> Lifecycle, ret |-> TRUE]
    /\ UNCHANGED <<otherVars, built, now, last_run_time, signal_interval,
                   max_daily_trades, trades, stats, lastScan, scanGap, risk, status>>

\* stop(): is_running is cleared, then join(timeout=10) waits for the thread:
\* a thread waking within the timeout finds is_running False and ends
Stop ==
    /\ built
    /\ IF ~is_running
       THEN /\ call' = [op |-> "stop", before |-> Lifecycle, ret |-> FALSE]
            /\ UNCHANGED <<is_running, threads, now>>
       ELSE /\ is_running' = FALSE
            /\ call' = [op |-> "stop", before |-> Lifecycle, ret |-> TRUE]
            /\ IF automation_thread # 0 /\ threads[automation_thread].alive
               THEN IF threads[automation_thread].wake <= now + JOIN_TIMEOUT
                    THEN /\ threads' = [threads EXCEPT ![automation_thread] = EndedThread]
                         /\ now' = Max2(now, threads[automation_thread].wake)
                    ELSE /\ now + JOIN_TIMEOUT <= MaxTicks * TICK
                         /\ now' = now + JOIN_TIMEOUT
                         /\ UNCHANGED threads
               ELSE UNCHANGED <<threads, now>>
    /\ UNCHANGED <<otherVars, built, automation_thread, last_run_time, signal_interval,
                   max_daily_trades, trades, stats, lastScan, scanGap, risk, status>>

\* get_status()
GetStatus ==
    /\ built
    /\ status' = [running |-> is_running,
                  last_run |-> last_run_time,
                  next_run |-> IF last_run_time # None
                               THEN Some(Val(last_run_time) + signal_interval) ELSE None]
    /\ call' = [op |-> "get_status"]
    /\ UNCHANGED <<otherVars, built, now, is_running, automation_thread, threads,
                   last_run_time, signal_interval, max_daily_trades, trades, stats,
                   lastScan, scanGap, risk>>

\* thread i goes to sleep for d seconds
Asleep(i, d) == [threads EXCEPT ![i].wake = now + d]

\* one pass of thread i through the loop of automation_cycle, from the test
\* of is_running to the sleep that ends the pass
AutomationCycle ==
    \E i \in 1..Len(threads), out \in RunOnceOutcomes :
        /\ threads[i].alive /\ threads[i].wake <= now
        /\ IF ~is_running
           THEN /\ threads' = [threads EXCEPT ![i] = EndedThread]
                /\ UNCHANGED <<last_run_time, stats, lastScan, scanGap, risk>>
           ELSE IF last_run_time # None /\ now - Val(last_run_time) < signal_interval
           THEN /\ threads' = Asleep(i, SLEEP_IDLE)
                /\ UNCHANGED <<last_run_time, stats, lastScan, scanGap, risk>>
           ELSE /\ risk' = check_risk_limits(trades, MAX_DRAWDOWN, max_daily_trades)
                /\ IF risk' = "raise"
                   THEN /\ threads' = Asleep(i, SLEEP_ERROR)
                        /\ UNCHANGED <<last_run_time, stats, lastScan, scanGap>>
                   ELSE IF risk' = "False"
                   THEN /\ threads' = Asleep(i, SLEEP_RISK)
                        /\ UNCHANGED <<last_run_time, stats, lastScan, scanGap>>
                   ELSE /\ lastScan' = Some(now)
                        /\ scanGap' = IF lastScan = None THEN None
                                      ELSE Some(now - Val(lastScan))
                        /\ IF out.kind = "raise"
                           THEN /\ threads' = Asleep(i, SLEEP_ERROR)
                                /\ UNCHANGED <<last_run_time, stats>>
                           ELSE /\ stats' = [signals_generated |->
                                                stats.signals_generated + Min2(out.n, MAX_SIGNALS),
                                             last_update |-> Some(now)]
                                /\ IF "update_automation_stats" \in DatabaseManagerMethods
                                   THEN /\ last_run_time' = Some(now)
                                        /\ threads' = Asleep(i, SLEEP_IDLE)
                                   ELSE /\ threads' = Asleep(i, SLEEP_ERROR)
                                        /\ UNCHANGED last_run_time
        /\ UNCHANGED <<otherVars, built, now, is_running, automation_thread,
                       signal_interval, max_daily_trades, trades, call, status>>

\* time passes while every living thread is asleep
Tick ==
    /\ built
    /\ now + TICK <= MaxTicks * TICK
    /\ \A i \in 1..Len(threads) : threads[i].alive => threads[i].wake > now
    /\ now' = now + TICK
    /\ UNCHANGED <<otherVars, built, is_running, automation_thread, threads,
                   last_run_time, signal_interval, max_daily_trades, trades, stats,
                   lastScan, scanGap, risk, call, status>>

NextAuto == Construct \/ Start \/ Stop \/ GetStatus \/ AutomationCycle \/ Tick

SpecAuto == Init /\ [][NextAuto]_vars

nonOrderVars == <<pipelineVars, levelVars, indicatorVars, trainVars, featureVars, autoVars>>

\* BybitClient()
ClientInit ==
    /\ ~cbuilt
    /\ cbuilt' = TRUE
    /\ \E env \in Environments :
          /\ use_real' = env.real
          /\ use_testnet' = env.testnet
          /\ client' = ClientOf(env)
          /\ virtual_orders' = OrdersOf(env)
    /\ UNCHANGED <<nonOrderVars, otime, placed, sent, mpc, checks, ocall>>

\* whether a call takes the branch of the exchange
Live == use_real /\ client # None

\* place_order(symbol, side, ...): the id of a virtual order is the time in
\* milliseconds, the k-th call of the model falling on the k-th millisecond
\* of its second
PlaceOrder ==
    /\ cbuilt /\ mpc = "idle" /\ ocall.op = ""
    /\ \E req \in OrderRequests :
          LET id == otime * MS + placed
          IN  IF Live
              THEN /\ sent' = sent \cup {"place_active_order"}
                   /\ ocall' = [op |-> "place_order", ret |-> "response"]
                   /\ UNCHANGED <<virtual_orders, placed>>
              ELSE IF virtual_orders = None
              THEN /\ ocall' = [op |-> "place_order", ret |-> "raise"]
                   /\ UNCHANGED <<virtual_orders, placed, sent>>
              ELSE /\ placed < MaxOrders
                   /\ placed' = placed + 1
                   /\ virtual_orders' = Some(Append(Val(virtual_orders),
                                                    VirtualOrder(id, req, otime)))
                   /\ ocall' = [op |-> "place_order", ret |-> [order_id |-> id, result |-> "success"]]
                   /\ UNCHANGED sent
    /\ UNCHANGED <<nonOrderVars, cbuilt, use_real, use_testnet, client, otime,
                   mpc, checks>>

\* the order ids a caller can pass to cancel_order: none, the id of an order
\* of the list, and an id no order has
CancelIds ==
    {None, Some(MS - 1)}
        \cup (IF virtual_orders = None THEN {}
              ELSE {Some(Val(virtual_orders)[i].order_id) : i \in 1..Len(Val(virtual_orders))})

\* cancel_order(symbol, order_id)
CancelOrder ==
    /\ cbuilt /\ mpc = "idle" /\ ocall.op = ""
    /\ \E oid \in CancelIds :
          IF oid = None
          THEN /\ ocall' = [op |-> "cancel_order", order_id |-> oid,
                            ret |-> "raise"]
               /\ UNCHANGED <<virtual_orders, sent>>
          ELSE IF Live
          THEN /\ sent' = sent \cup {"cancel_active_order"}
               /\ ocall' = [op |-> "cancel_order", order_id |-> oid,
                            ret |-> "response"]
               /\ UNCHANGED virtual_orders
          ELSE IF virtual_orders = None
          THEN /\ ocall' = [op |-> "cancel_order", order_id |-> oid,
                            ret |-> "raise"]
               /\ UNCHANGED <<virtual_orders, sent>>
          ELSE LET orders == Val(virtual_orders)
                   i == FirstMatch(orders, oid)
               IN  IF i = 0
                   THEN /\ ocall' = [op |-> "cancel_order", order_id |-> oid,
                                     ret |-> [result |-> "error"]]
                        /\ UNCHANGED <<virtual_orders, sent>>
                   ELSE /\ virtual_orders' =
                              Some([orders EXCEPT ![i] = Put(orders[i], "status", "cancelled")])
                        /\ ocall' = [op |-> "cancel_order", order_id |-> oid,
                                     ret |-> [result |-> "success",
                                              order_id |-> orders[i].order_id]]
                        /\ UNCHANGED sent
    /\ UNCHANGED <<nonOrderVars, cbuilt, use_real, use_testnet, client, otime, placed,
                   mpc, checks>>

\* get_open_orders(symbol)
GetOpenOrders ==
    /\ cbuilt /\ mpc = "idle" /\ ocall.op = ""
    /\ \E req \in OrderRequests :
          IF Live
          THEN /\ sent' = sent \cup {"get_active_order"}
               /\ ocall' = [op |-> "get_open_orders", symbol |-> req[1],
                            ret |-> "response"]
          ELSE IF virtual_orders = None
          THEN /\ ocall' = [op |-> "get_open_orders", symbol |-> req[1],
                            ret |-> "raise"]
               /\ UNCHANGED sent
          ELSE /\ ocall' = [op |-> "get_open_orders", symbol |-> req[1],
                            ret |-> [result |-> "success",
                                     data |-> OpenOrders(Val(virtual_orders), req[1])]]
               /\ UNCHANGED sent
    /\ UNCHANGED <<nonOrderVars, cbuilt, use_real, use_testnet, client, virtual_orders,
                   otime, placed, mpc, checks>>

\* monitor_virtual_orders() is called, as run_once does in virtual mode
MonitorStart ==
    /\ cbuilt /\ mpc = "idle" /\ ocall.op = ""
    /\ virtual_orders # None
    /\ otime + MAX_CHECKS * CHECK_INTERVAL <= MaxOrderTicks * TICK
    /\ mpc' = "loop"
    /\ checks' = 0
    /\ UNCHANGED <<nonOrderVars, cbuilt, use_real, use_testnet, client, virtual_orders,
                   otime, placed, sent, ocall>>

\* one pass of the while loop: the fills, the filter, the sleep, checks += 1
MonitorCheck ==
    /\ mpc = "loop"
    /\ checks < MAX_CHECKS /\ Val(virtual_orders) # <<>>
    /\ virtual_orders' = Some(Unfilled(FillDue(Val(virtual_orders), otime)))
    /\ otime' = otime + CHECK_INTERVAL
    /\ checks' = checks + 1
    /\ UNCHANGED <<nonOrderVars, cbuilt, use_real, use_testnet, client, placed, sent, mpc,
                   ocall>>

\* the loop test fails and monitor_virtual_orders returns
MonitorReturn ==
    /\ mpc = "loop"
    /\ ~(checks < MAX_CHECKS /\ Val(virtual_orders) # <<>>)
    /\ mpc' = "idle"
    /\ checks' = 0
    /\ ocall' = [op |-> "monitor_virtual_orders", checks |-> checks]
    /\ UNCHANGED <<nonOrderVars, cbuilt, use_real, use_testnet, client, virtual_orders,
                   otime, placed, sent>>

\* the caller takes the result of its call
ClientReturn ==
    /\ ocall.op # ""
    /\ ocall' = [op |-> ""]
    /\ UNCHANGED <<nonOrderVars, cbuilt, use_real, use_testnet, client, virtual_orders,
                   otime, placed, sent, mpc, checks>>

\* time passes between two calls
OrderTick ==
    /\ cbuilt /\ mpc = "idle" /\ ocall.op = ""
    /\ otime + TICK <= MaxOrderTicks * TICK
    /\ otime' = otime + TICK
    /\ UNCHANGED <<nonOrderVars, cbuilt, use_real, use_testnet, client, virtual_orders,
                   placed, sent, mpc, checks, ocall>>

NextOrders ==
    ClientInit \/ PlaceOrder \/ CancelOrder \/ GetOpenOrders \/ MonitorStart
        \/ MonitorCheck \/ MonitorReturn \/ ClientReturn \/ OrderTick

SpecOrders == Init /\ [][NextOrders]_vars

\* ------------------------------------------------- claims on the analyzer
TimeFrames == {INTERVALS[i] : i \in 1..Len(INTERVALS)}

\* an analyze call has returned after computing the snapshot of every timeframe
Analyzed == apc = "done" /\ DOMAIN data = TimeFrames

\* the caller got a signal (a raised exception hands it none)
GotSignal == raw.kind = "signal"

\* the directional vote of a timeframe, as section 4.2 step 4 words it
DirectionalVote(d) ==
    CASE d.close > Val(d.bb_up) -> "LONG"
      [] d.close <= Val(d.bb_up) /\ d.close < Val(d.bb_low) -> "SHORT"
      [] d.close <= Val(d.bb_up) /\ d.close >= Val(d.bb_low) /\ d.close > Val(d.ema21) -> "LONG"
      [] d.close <= Val(d.bb_up) /\ d.close >= Val(d.bb_low) /\ d.close < Val(d.ema21) -> "SHORT"
      [] OTHER -> ""

\* the reference snapshot passes the admission filter, as section 4.2 step 3 words it
Admitted(tf) ==
    /\ tf.volume >= MIN_VOLUME
    /\ tf.atr # None /\ tf.rsi # None /\ tf.close > 0
    /\ Val(tf.atr) * 1000 >= MIN_ATR_PCT * tf.close
    /\ Val(tf.rsi) > RSI_ZONE[1] * RSI_SCALE /\ Val(tf.rsi) < RSI_ZONE[2] * RSI_SCALE

\* C1: analyze returns no signal when one timeframe votes LONG and another SHORT
\* (strict consensus, never a majority).
C1_StrictConsensus ==
    (/\ Analyzed
     /\ \E a \in TimeFrames, b \in TimeFrames :
           DirectionalVote(data[a]) = "LONG" /\ DirectionalVote(data[b]) = "SHORT")
    => ~GotSignal

\* two timeframes vote LONG, the third SHORT, the reference is admitted: no signal
C1_Witness ==
    /\ Analyzed /\ Admitted(data["1h"]) /\ raw = NoSignal
    /\ DirectionalVote(data["15m"]) = "LONG" /\ DirectionalVote(data["1h"]) = "LONG"
    /\ DirectionalVote(data["4h"]) = "SHORT"

\* C2: the side of every returned signal is the directional vote of each of the
\* three timeframes; a timeframe without a vote yields no signal.
C2_EveryTimeframeVotesSide ==
    (Analyzed /\ GotSignal)
    => \A tf \in TimeFrames : DirectionalVote(data[tf]) = raw.sig.side

\* C3: entry, tp and sl of every returned signal are positive and strictly
\* ordered by side (tp > entry > sl for LONG, tp < entry < sl for SHORT).
C3_LevelsOrdered ==
    GotSignal =>
        /\ raw.sig.entry > 0 /\ raw.sig.tp > 0 /\ raw.sig.sl > 0
        /\ raw.sig.side = "LONG" => (raw.sig.tp > raw.sig.entry /\ raw.sig.entry > raw.sig.sl)
        /\ raw.sig.side = "SHORT" => (raw.sig.tp < raw.sig.entry /\ raw.sig.entry < raw.sig.sl)

\* C4: analyze returns None when a timeframe yields fewer than 30 candles,
\* the empty list of a failed fetch included.
C4_ShortHistoryNoSignal ==
    (apc = "done" /\ \E i \in 1..Len(lens) : lens[i] < 30) => raw = NoSignal

\* the first two timeframes had full history, the third fetch failed
C4_Witness ==
    /\ apc = "done" /\ Len(lens) = 3 /\ lens[1] >= 30 /\ lens[2] >= 30 /\ lens[3] = 0
    /\ raw = NoSignal

\* some indicator of a snapshot is unavailable
Unavailable(tf) ==
    \E v \in {tf.ema9, tf.ema21, tf.sma20, tf.rsi, tf.macd,
               tf.bb_up, tf.bb_mid, tf.bb_low, tf.atr} : v = None

RECURSIVE DirectionalVotesFrom(_)
DirectionalVotesFrom(i) ==
    IF i > Len(INTERVALS) THEN <<>>
    ELSE LET v == DirectionalVote(data[INTERVALS[i]])
         IN  (IF v = "" THEN <<>> ELSE <<v>>) \o DirectionalVotesFrom(i + 1)

\* C10: a timeframe votes LONG above its upper band, SHORT below its lower band,
\* else LONG above ema_slow and SHORT below it; with all three closes above the
\* upper band and the reference admitted, analyze returns a LONG signal.
C10_VoteRule ==
    (Analyzed /\ Admitted(data["1h"])) =>
        /\ sides = DirectionalVotesFrom(1)
        /\ (\A tf \in TimeFrames : data[tf].close > Val(data[tf].bb_up))
              => (GotSignal /\ raw.sig.side = "LONG")

\* all three closes are above the upper band and a LONG signal came back
C10_Witness ==
    /\ Analyzed /\ Admitted(data["1h"])
    /\ \A tf \in TimeFrames : data[tf].close > Val(data[tf].bb_up)
    /\ GotSignal /\ raw.sig.side = "LONG" /\ sides = <<"LONG", "LONG", "LONG">>


\* C14: analyze never raises for candle lists the fetch can return (empty,
\* short, constant prices, zero close or zero volume): it returns a signal or None.
C14_NeverRaises == apc = "done" => raw.kind \in {"signal", "None"}

\* --------------------------------------------------- claims on the ranking
\* position of a signal in the scan order
ScanPos(sg) == CHOOSE i \in 1..Len(scanned) : scanned[i] = sg

Elems(list) == {list[i] : i \in 1..Len(list)}

\* C6: the ranking returns the scanned signals sorted by score descending, equal
\* scores in scan order, cut to the first top_n; nothing is added or duplicated;
\* an empty input gives an empty result.
C6_Ranking ==
    pc \in {"execute", "returned"} =>
        /\ Len(signals) = Len(scanned) /\ Elems(signals) = Elems(scanned)
        /\ \A i \in 1..Len(signals), j \in 1..Len(signals) :
              i < j => \/ signals[i].score > signals[j].score
                       \/ /\ signals[i].score = signals[j].score
                          /\ ScanPos(signals[i]) < ScanPos(signals[j])
        /\ Len(top_signals) = Min2(top_n_signals, Len(scanned))
        /\ \A i \in 1..Len(top_signals) : top_signals[i] = signals[i]
        /\ scanned = <<>> => top_signals = <<>>

\* three signals, the first with the lowest score and the other two tied, top 2
C6_Witness ==
    /\ pc = "execute" /\ Len(scanned) = 3 /\ top_n_signals = 2
    /\ scanned[1].score < scanned[2].score /\ scanned[2].score = scanned[3].score
    /\ top_signals = <<scanned[2], scanned[3]>>

\* the symbols the scan loop has called analyze on, in call order
AnalyzedSymbols == SubSeq(symbols, 1, symIdx - 1)

\* C15: when run_once is over, analyze was called on every symbol of the list
\* exactly once and in list order: a symbol without a signal, or one whose
\* handling failed, never keeps the remaining symbols from being analysed.
C15_EverySymbolAnalyzed ==
    pc \in {"returned", "raised"} => AnalyzedSymbols = symbols

\* ------------------------------------------------- claims on the execution
\* the calls of place_order that did not raise
Placed == {i \in 1..Len(orderCalls) : ~orderCalls[i].raised}

\* C24: every order run_once places and every trade it records carries the
\* symbol, the side and the entry price analyze gave the selected signal it
\* was made for, and one trade is recorded for every selected signal whose
\* place_order did not raise.
C24_OrdersAndTradesOfSignals ==
    /\ \A i \in Placed :
          /\ orderCalls[i].args.symbol = top_signals[i]["symbol"]
          /\ orderCalls[i].args.side = top_signals[i]["side"]
          /\ orderCalls[i].args.price = top_signals[i]["entry"]
    /\ Len(recorded) = Cardinality(Placed)
    /\ \A k \in 1..Len(recorded) :
          /\ recorded[k].symbol = top_signals[k]["symbol"]
          /\ recorded[k].side = top_signals[k]["side"]
          /\ recorded[k].entry_price = top_signals[k]["entry"]

\* ---------------------------------------------------- claims on the scorer
\* C7 as stated: without a model, score is the signal's score (60 when it has
\* none) and confidence is 70 whatever the signal contains.
C7_FallbackFixedConfidence ==
    (spc = "done" /\ model = None) =>
        /\ enhanced.score = (IF "score" \in DOMAIN given THEN given.score ELSE 6000)
        /\ enhanced.confidence = 7000

\* C7 amended: without a model, score is the signal's score (60 when it has none)
\* and confidence is the signal's confidence (70 when it has none).
C7_FallbackKeepsExisting ==
    (spc = "done" /\ model = None) =>
        /\ enhanced.score = (IF "score" \in DOMAIN given THEN given.score ELSE 6000)
        /\ enhanced.confidence =
              (IF "confidence" \in DOMAIN given THEN given.confidence ELSE 7000)

\* without a model a signal carrying confidence 55 keeps it
C7_Witness ==
    /\ spc = "done" /\ model = None
    /\ "confidence" \in DOMAIN given /\ given.confidence = 5500
    /\ enhanced.confidence = 5500 /\ enhanced.score = given.score

\* C8 as stated: with a model, 0 <= score <= confidence <= min(score + 10, 100).
C8_ScoreBelowConfidence ==
    (spc = "done" /\ model # None) =>
        /\ 0 <= enhanced.score
        /\ enhanced.score <= enhanced.confidence
        /\ enhanced.confidence <= Min2(enhanced.score + 1000, 10000)

\* C8 amended: with a model, score = round(p*100, 2) and confidence is
\* min(score + jitter, 100) cut to a whole number, so that 0 <= score <= 100 and
\* score - 1 < confidence <= min(score + 10, 100).
C8_TruncatedConfidence ==
    (spc = "done" /\ model # None) =>
        /\ 2 * Abs(10 * enhanced.score - prob) <= 10
        /\ enhanced.confidence % 100 = 0
        /\ enhanced.confidence <= Min2(enhanced.score + jitter, 10000)
        /\ Min2(enhanced.score + jitter, 10000) < enhanced.confidence + 100
        /\ 0 <= enhanced.score /\ enhanced.score <= 10000
        /\ enhanced.score - 100 < enhanced.confidence
        /\ enhanced.confidence <= Min2(enhanced.score + 1000, 10000)

\* probability 0.80505, jitter 0.2: score 80.5, confidence 80
C8_Witness ==
    /\ spc = "done" /\ model # None /\ prob = 80505 /\ jitter = 20
    /\ enhanced.score = 8050 /\ enhanced.confidence = 8000

\* C9 as stated: every field of the raw signal, its rule-based score included,
\* is in the enhanced signal with its value unchanged.
C9_AllFieldsUnchanged ==
    (spc = "done" /\ given \in RawSignals) =>
        \A k \in DOMAIN given : k \in DOMAIN enhanced /\ enhanced[k] = given[k]

\* C9 amended: the enhanced signal has the raw signal's fields plus confidence;
\* every field but score keeps its value; score keeps the rule-based score on
\* the fallback path only.
C9_FieldsButScoreUnchanged ==
    (spc = "done" /\ given \in RawSignals) =>
        /\ DOMAIN enhanced = DOMAIN given \cup {"confidence"}
        /\ \A k \in DOMAIN given \ {"score"} : enhanced[k] = given[k]
        /\ model = None => enhanced.score = given.score

\* a model replaced the rule-based score of a raw signal, the rest is as it was
C9_Witness ==
    /\ spc = "done" /\ model # None /\ given \in RawSignals
    /\ enhanced.score # given.score
    /\ enhanced.side = given.side /\ enhanced.entry = given.entry

\* ------------------------------------------- claims on levels and rule score
\* C11: the rule score of a returned signal is 100 * (0.3 if MACD > 0, 0.2 if RSI
\* is outside the open interval (30,70), exactly 30 or 70 included, 0.3 if the
\* Bollinger direction is Up or Down else 0.1, 0.2 if trend is Trend else 0.1)
\* and lies in [0,100].
C11_RuleScore ==
    lpc = "done" =>
        LET tenths ==
                (IF Val(refTf.macd) > 0 THEN 3 ELSE 0)
              + (IF Val(refTf.rsi) <= 30 * RSI_SCALE \/ Val(refTf.rsi) >= 70 * RSI_SCALE
                 THEN 2 ELSE 0)
              + (IF levels.bb_slope \in {"Up", "Down"} THEN 3 ELSE 1)
              + (IF levels.type = "Trend" THEN 2 ELSE 1)
        IN  /\ levels.score = tenths * 10 * SCORE_SCALE
            /\ 0 <= levels.score /\ levels.score <= 100 * SCORE_SCALE

\* the entry sources of the reference snapshot, in the order of the code
EntrySources == <<Val(refTf.sma20), Val(refTf.ema9), Val(refTf.ema21)>>

\* C12: the entry is the one of sma20, ema9, ema21 closest to the close, the
\* first of them in that order when distances are equal.
C12_ClosestEntry ==
    lpc = "done" =>
        \E i \in 1..3 :
            /\ \A j \in 1..3 :
                  Abs(EntrySources[i] - refTf.close) <= Abs(EntrySources[j] - refTf.close)
            /\ \A j \in 1..(i - 1) :
                  Abs(EntrySources[j] - refTf.close) > Abs(EntrySources[i] - refTf.close)
            /\ levels.entry = Round6(EntrySources[i], 1)

\* ema9 and ema21 are equally close on opposite sides, sma20 is farther: ema9
C12_Witness ==
    /\ lpc = "done"
    /\ Val(refTf.sma20) = refTf.close + 2000
    /\ Val(refTf.ema9) = refTf.close - 1000
    /\ Val(refTf.ema21) = refTf.close + 1000
    /\ levels.entry = Round6(Val(refTf.ema9), 1)

\* ------------------------------------------------ claims on the indicators
\* C13: on an input shorter than its required length every indicator returns
\* None (bollinger a triple of None): ema, sma, bollinger below period samples,
\* rsi and atr below period + 1, macd below 26.
C13_InsufficientData ==
    ipc = "done" =>
        LET n == Len(inCandles)
        IN  /\ n < inPeriod =>
                  /\ indOut.ema = None /\ indOut.sma = None
                  /\ indOut.bollinger = <<None, None, None>>
            /\ n < inPeriod + 1 => (indOut.rsi = None /\ indOut.atr = None)
            /\ n < 26 => indOut.macd = None

\* 14 samples with period 14: ema, sma and bollinger are numbers, rsi, atr and
\* macd are None
C13_Witness ==
    /\ ipc = "done" /\ Len(inCandles) = 14 /\ inPeriod = 14
    /\ indOut.ema # None /\ indOut.sma # None /\ indOut.bollinger[1] # None
    /\ indOut.rsi = None /\ indOut.atr = None /\ indOut.macd = None

\* --------------------------------------------------- claims on the features
\* the numeric fields in the order of the vector
NumericFields == <<"entry", "tp", "sl", "trail", "score", "confidence">>

\* C17: two extract_features calls on one dict return the same vector of nine
\* elements: the six numeric fields in order, 0 for a missing one, then side
\* (1 for LONG, else 0), trend (1 for Up, -1 for Down, else 0) and regime
\* (1 for Breakout, else 0); the dict is as it was before the calls.
C17_FeatureVector ==
    fpc = "twice" =>
        /\ featuresAgain = features
        /\ featSignal = featGiven
        /\ Len(features) = 9
        /\ \A i \in 1..6 :
              features[i] = IF NumericFields[i] \in DOMAIN featGiven
                            THEN featGiven[NumericFields[i]] ELSE 0
        /\ features[7] \in {0, 1}
        /\ features[7] = 1 <=> ("side" \in DOMAIN featGiven /\ featGiven.side = "LONG")
        /\ features[8] \in {-1, 0, 1}
        /\ features[8] = 1 <=> ("trend" \in DOMAIN featGiven /\ featGiven.trend = "Up")
        /\ features[8] = -1 <=> ("trend" \in DOMAIN featGiven /\ featGiven.trend = "Down")
        /\ features[9] \in {0, 1}
        /\ features[9] = 1 <=> ("regime" \in DOMAIN featGiven /\ featGiven.regime = "Breakout")

\* a SHORT signal in a down trend, without regime and without trail
C17_Witness ==
    /\ fpc = "twice"
    /\ DOMAIN featGiven # {}
    /\ "trail" \notin DOMAIN featGiven /\ "regime" \notin DOMAIN featGiven
    /\ "side" \in DOMAIN featGiven /\ featGiven.side = "SHORT"
    /\ "trend" \in DOMAIN featGiven /\ featGiven.trend = "Down"
    /\ features[4] = 0 /\ features[7] = 0 /\ features[8] = -1 /\ features[9] = 0
    /\ features[1] = featGiven.entry /\ features[1] > 0

\* --------------------------------------------------- claims on the training
\* the columns the claim calls required: the raw fields of the nine features
RequiredFields ==
    {"entry", "tp", "sl", "trail", "score", "confidence", "side", "trend", "regime"}

\* C16: a train_from_history call on fewer than 30 records, or on records
\* lacking a required column, returns without raising, leaves MLFilter.model as
\* it was and does not write the model file.
C16_TrainingAborts ==
    (tpc = "done" /\ (trainLen < MIN_SAMPLES \/ ~(RequiredFields \subseteq trainCols)))
        => (trainEnd = "returned" /\ model = modelWas /\ ~dumped)

\* ------------------------------------------------- claims on the automation
\* C18: two successive scans of the automation cycle are at least
\* signal_interval seconds apart: a scan that returned is recorded in
\* last_run_time, and get_status reports next_run = last_run + signal_interval.
C18_ScanSpacing ==
    /\ scanGap # None => Val(scanGap) >= signal_interval
    /\ stats.last_update # None => last_run_time = stats.last_update
    /\ (call.op = "get_status" /\ stats.last_update # None) =>
           status.next_run = Some(Val(stats.last_update) + signal_interval)

\* C19: when the largest drawdown of the equity curve, as a percentage of the
\* peak, is max_drawdown_limit or more, check_risk_limits returns False and
\* the cycle does not call run_once.
C19_DrawdownLimit ==
    ((\A i \in 1..Len(trades) : trades[i].pnl # None)
       /\ Abs(calculate_drawdown(EquityCurve(trades))) >= MAX_DRAWDOWN * PCT_SCALE)
        => (risk \in {"", "False"} /\ lastScan = None)

\* C20: start() on a running trader returns False and changes nothing, on a
\* stopped one it sets is_running and returns True; stop() on a stopped trader
\* returns False and changes nothing, on a running one it clears is_running
\* and returns True; get_status().running is is_running.
C20_Lifecycle ==
    /\ call.op = "start" =>
          IF call.before.running
          THEN call.ret = FALSE /\ Lifecycle = call.before
          ELSE call.ret = TRUE /\ is_running
    /\ call.op = "stop" =>
          IF call.before.running
          THEN call.ret = TRUE /\ ~is_running
          ELSE call.ret = FALSE /\ Lifecycle = call.before
    /\ call.op = "get_status" => status.running = is_running

\* a start() on a running trader was refused, after get_status reported it
\* running: the thread of an earlier start(), which outlived a stop(), is
\* alive beside the current one
C20_Witness ==
    /\ call.op = "start" /\ call.before.running /\ call.ret = FALSE
    /\ is_running
    /\ Len(threads) = 2 /\ automation_thread = 2
    /\ threads[1].alive /\ threads[2].alive
    /\ status # <<>> /\ status.running

\* the threads whose automation_cycle loop has not ended
ActiveLoops == {i \in 1..Len(threads) : threads[i].alive}

\* C22: at any time at most one automation_cycle loop is active, whatever the
\* order of the start() and stop() calls, a stop() and start() made while the
\* loop of the earlier start() is asleep included.
C22_SingleLoop == Cardinality(ActiveLoops) <= 1

\* C23: check_risk_limits returns True or False and never raises, whatever
\* trades are stored, open trades whose pnl is None included (they add 0 to
\* the equity curve), so that a cycle over such trades goes on to the scan.
C23_RiskCheckReturns == risk # "raise"

\* --------------------------------------------- claims on the virtual orders
\* C21: monitor_virtual_orders makes at most max_checks passes and returns
\* earlier once the list of virtual orders is empty; when it has returned, no
\* order of the list has status filled.
C21_MonitorTerminates ==
    /\ [](/\ checks <= MAX_CHECKS
          /\ ocall.op = "monitor_virtual_orders" =>
                /\ ocall.checks <= MAX_CHECKS
                /\ ocall.checks = MAX_CHECKS \/ Val(virtual_orders) = <<>>
                /\ \A i \in 1..Len(Val(virtual_orders)) :
                      Val(virtual_orders)[i].status # "filled")
    /\ [][(mpc = "loop" /\ Val(virtual_orders) = <<>>) => mpc' = "idle"]_vars

\* a monitor that found an open and a cancelled order has returned after six
\* passes: the open order was filled and removed, the cancelled one is left
C21_Witness ==
    /\ ocall.op = "monitor_virtual_orders"
    /\ ocall.checks = MAX_CHECKS
    /\ Len(Val(virtual_orders)) = 1
    /\ Val(virtual_orders)[1].status = "cancelled"
    /\ placed = 2

\* the virtual orders before and after a step
OrdersBefore == Val(virtual_orders)
OrdersAfter == Val(virtual_orders')

\* a step in which a call of this name returns
Returns(name) == ocall.op = "" /\ ocall'.op = name

\* the settings and the exchange are as before the step
OnlyOrdersTouched == UNCHANGED <<use_real, use_testnet, client, sent>>

\* C26: nothing is sent to the exchange unless real trading is enabled: with
\* use_real False, place_order, cancel_order and get_open_orders touch nothing
\* but the list of virtual orders, and place_order appends one order with
\* status open and returns its order_id.
C26_VirtualOnly ==
    /\ [](sent # {} => use_real)
    /\ [][(~use_real /\ Returns("place_order")) =>
            /\ OnlyOrdersTouched
            /\ Len(OrdersAfter) = Len(OrdersBefore) + 1
            /\ SubSeq(OrdersAfter, 1, Len(OrdersBefore)) = OrdersBefore
            /\ OrdersAfter[Len(OrdersAfter)].status = "open"
            /\ ocall'.ret.order_id = OrdersAfter[Len(OrdersAfter)].order_id]_vars
    /\ [][(~use_real /\ (Returns("cancel_order") \/ Returns("get_open_orders"))) =>
            /\ OnlyOrdersTouched
            /\ Len(OrdersAfter) = Len(OrdersBefore)]_vars

\* with no mode set, a second virtual order was placed and its id returned
C26_Witness ==
    /\ ~use_real /\ ~use_testnet
    /\ ocall.op = "place_order"
    /\ Len(Val(virtual_orders)) = 2
    /\ Val(virtual_orders)[1].status = "cancelled"
    /\ Val(virtual_orders)[2].status = "open"
    /\ ocall.ret.order_id = Val(virtual_orders)[2].order_id
    /\ sent = {}

\* the orders of a list that have this id
WithId(orders, id) == {i \in 1..Len(orders) : orders[i].order_id = id}

Orders(list) == {list[i] : i \in 1..Len(list)}

\* C27: the status of a virtual order goes from open to filled or from open
\* to cancelled only: a pass of the monitor fills, and removes, only orders
\* that are open and more than 30 seconds old, so a cancelled order is never
\* filled; cancel_order with an id no order has returns an error and changes
\* no order; get_open_orders(symbol) returns the orders of the symbol whose
\* status is open, and no other.
C27_StatusMoves ==
    /\ [][(mpc = "loop" /\ mpc' = "loop") =>
            /\ Orders(OrdersAfter) \subseteq Orders(OrdersBefore)
            /\ \A o \in Orders(OrdersBefore) \ Orders(OrdersAfter) :
                  o.status = "open" /\ otime - o.create_time > FILL_AFTER
            /\ \A o \in Orders(OrdersAfter) : o.status # "filled"]_vars
    /\ [][(Returns("cancel_order") /\ virtual_orders # None /\ ~(use_real /\ client # None)) =>
            /\ Len(OrdersAfter) = Len(OrdersBefore)
            /\ \A i \in 1..Len(OrdersBefore) :
                  \/ OrdersAfter[i] = OrdersBefore[i]
                  \/ /\ OrdersBefore[i].status = "open"
                     /\ OrdersAfter[i] = [OrdersBefore[i] EXCEPT !.status = "cancelled"]
            /\ (ocall'.order_id # None /\ WithId(OrdersBefore, Val(ocall'.order_id)) = {}) =>
                  (ocall'.ret.result = "error" /\ OrdersAfter = OrdersBefore)]_vars
    /\ [][(Returns("get_open_orders") /\ virtual_orders # None /\ ~(use_real /\ client # None)) =>
            /\ OrdersAfter = OrdersBefore
            /\ Orders(ocall'.ret.data) =
                  {o \in Orders(OrdersBefore) : o.symbol = ocall'.symbol /\ o.status = "open"}]_vars

\* in the fifth pass of a monitor the list holds one order, cancelled and more
\* than 30 seconds old: the other order placed was filled and removed
C27_Witness ==
    /\ mpc = "loop" /\ checks = 5
    /\ placed = 2
    /\ Len(Val(virtual_orders)) = 1
    /\ Val(virtual_orders)[1].status = "cancelled"
    /\ otime - Val(virtual_orders)[1].create_time > FILL_AFTER

====
